---- MODULE Spec2Model ----
(***************************************************************************)
(* A model of the meme storage bot: the SQLite table of database.py, the   *)
(* Telegram handlers and the signed-URL file gate of main.py, and the tag  *)
(* extraction of ml.py.                                                    *)
(*                                                                         *)
(* Text is modelled as a sequence of one-character strings, so that        *)
(* split, join, strip, lower, startswith and sorted are computed the way   *)
(* Python computes them.                                                   *)
(***************************************************************************)
EXTENDS Integers, Sequences, FiniteSets, TLC

VARIABLES
    schema,      \* the memes table of /app/data/db/memes.db: which DDL objects exist
    memes,       \* the rows of the table, in rowid order
    memeFiles,   \* MEME_DIR: file name -> content of the regular files in it
    thumbFiles,  \* THUMBNAIL_DIR: the names of the files in it
    tasks,       \* the handler invocations in flight, by slot
    conv,        \* the state of the /clear ConversationHandler
    clears,      \* history: how many times clear_database has run
    quiet,       \* history: a rescan has run from its read of the hashes to the
                 \* end of its loop with no other change to the rows, and
                 \* neither the rows nor MEME_DIR have changed since
    now,         \* the clock read by the signer (seconds)
    minted,      \* the tokens signer.dumps has produced
    http,        \* the last request to the asset surface and its response
    search       \* the last inline query and what it computed

vars == <<schema, memes, memeFiles, thumbFiles, tasks, conv, clears, quiet,
          now, minted, http, search>>

pipelineVars == <<schema, memes, memeFiles, thumbFiles, tasks, conv, clears, quiet>>
gateVars == <<now, minted, http>>

None == "None"

\* Before any inline query.
NoSearch == [answered |-> FALSE, query |-> <<>>, results |-> <<>>, inline_results |-> <<>>]

\* Before any request to the asset surface.
NoRequest ==
    [base_dir |-> <<>>, token |-> <<>>, at |-> 0,
     response |-> [status |-> 0, detail |-> None, exc |-> None, path |-> <<>>]]

Range(s) == {s[i] : i \in 1..Len(s)}

-----------------------------------------------------------------------------
(* Characters and the str methods the code uses.                           *)

\* The characters of the model in code point order (what sorted() compares).
Chars ==
    << " ", "!", ",", "-", ".", "/", "0", "1", "2",
       "A", "C", "D", "M", "T", "_",
       "a", "b", "c", "d", "e", "f", "g", "h", "i", "j", "k", "l", "m",
       "n", "o", "p", "s", "t", "u", "x", "y" >>

Code == [c \in Range(Chars) |-> CHOOSE i \in 1..Len(Chars) : Chars[i] = c]

UpperChars == <<"A", "C", "D", "M", "T">>
LowerChars == <<"a", "c", "d", "m", "t">>
Digits == {"0", "1", "2"}

IsSpace(c) == c = " "
IsAlnum(c) == c \in Digits \/ (Code[c] >= Code["A"] /\ c # "_")
IsWord(c) == IsAlnum(c) \/ c = "_"

CharLower(c) ==
    IF c \in Range(UpperChars)
    THEN LowerChars[CHOOSE i \in 1..Len(UpperChars) : UpperChars[i] = c]
    ELSE c

StrLower(s) == [i \in 1..Len(s) |-> CharLower(s[i])]

\* ''.join(filter(str.isalnum, word))
FilterAlnum(s) == SelectSeq(s, IsAlnum)

RECURSIVE SplitAt(_, _, _, _)
\* The pieces of s between the characters of seps, empty pieces kept.
SplitAt(s, seps, cur, acc) ==
    IF s = <<>> THEN Append(acc, cur)
    ELSE IF Head(s) \in seps THEN SplitAt(Tail(s), seps, <<>>, Append(acc, cur))
    ELSE SplitAt(Tail(s), seps, Append(cur, Head(s)), acc)

NonEmpty(s) == s # <<>>

\* str.split(): on runs of whitespace, no empty pieces
StrSplit(s) == SelectSeq(SplitAt(s, {" "}, <<>>, <<>>), NonEmpty)

\* str.split(','): empty pieces kept, ''.split(',') = ['']
StrSplitComma(s) == SplitAt(s, {","}, <<>>, <<>>)

RECURSIVE LStrip(_)
LStrip(s) == IF s # <<>> /\ IsSpace(Head(s)) THEN LStrip(Tail(s)) ELSE s

RECURSIVE RStrip(_)
RStrip(s) ==
    IF s # <<>> /\ IsSpace(s[Len(s)]) THEN RStrip(SubSeq(s, 1, Len(s) - 1)) ELSE s

StrStrip(s) == RStrip(LStrip(s))

RECURSIVE StrJoin(_, _)
\* sep.join(parts)
StrJoin(sep, parts) ==
    IF parts = <<>> THEN <<>>
    ELSE IF Len(parts) = 1 THEN parts[1]
    ELSE parts[1] \o sep \o StrJoin(sep, Tail(parts))

\* a.startswith(b)
StartsWith(a, b) == Len(b) <= Len(a) /\ SubSeq(a, 1, Len(b)) = b

RECURSIVE StrLess(_, _)
\* a < b on str: code point order, a proper prefix first
StrLess(a, b) ==
    IF b = <<>> THEN FALSE
    ELSE IF a = <<>> THEN TRUE
    ELSE IF Head(a) # Head(b) THEN Code[Head(a)] < Code[Head(b)]
    ELSE StrLess(Tail(a), Tail(b))

RECURSIVE Sorted(_)
\* sorted(list(S)) of a set of str
Sorted(S) ==
    IF S = {} THEN <<>>
    ELSE LET m == CHOOSE x \in S : \A y \in S \ {x} : StrLess(x, y)
         IN <<m>> \o Sorted(S \ {m})

\* ','.join(sorted(list(tags)))
TagString(tags) == StrJoin(<<",">>, Sorted(tags))

-----------------------------------------------------------------------------
(* ml.py: tags from the text the OCR model reads in an image.              *)

Contents == {"c1", "c2"}

\* What the model generates for each image (parsed_answer['<OCR>']).
OcrText(content) ==
    IF content = "c1" THEN <<"M", "A", "T", " ", "o", "n">>
    ELSE IF content = "c3"
    THEN <<"A", " ", "C", "a", "t", "!", " ", "s", "a", "t", " ", "o", "n", " ",
           "a", " ", "M", "A", "T", ".">>
    ELSE IF content = "c4"
    THEN <<"t", "h", "e", " ", "x", "_", "1", " ", "C", "a", "t">>
    ELSE <<>>

NotWord(c) == ~IsWord(c)
AtLeast3(w) == Len(w) >= 3

\* Function words that a stop-word filter would drop; ml.py holds no such list.
StopWords == {<<"t", "h", "e">>}
KeptWord(w) == Len(w) >= 3 /\ StrLower(w) \notin StopWords

\* The words of the text with the function words dropped.
FindWordsNoStop(text) == SelectSeq(SplitAt(text, {c \in Range(Chars) : NotWord(c)}, <<>>, <<>>), KeptWord)

\* re.findall(r'\b\w{3,}\b', text): the maximal runs of word characters of
\* length 3 or more.
FindWords(text) == SelectSeq(SplitAt(text, {c \in Range(Chars) : NotWord(c)}, <<>>, <<>>), AtLeast3)

\* get_tags_for_image: [] without processor or model, else the sorted unique
\* lowercased words of the text read from the image.
GetTagsForImage(content, loaded) ==
    IF ~loaded THEN <<>>
    ELSE Sorted({StrLower(w) : w \in Range(FindWords(OcrText(content)))})

\* save_photo, "2. Get tags from caption".
CaptionTags(manual_input) ==
    IF manual_input = <<>> THEN {}
    ELSE {w \in {StrLower(FilterAlnum(word)) : word \in Range(StrSplit(manual_input))} :
            Len(w) > 2}

-----------------------------------------------------------------------------
(* database.py                                                             *)

NoSchema == [columns |-> {}, index |-> FALSE]

\* create_table without its last statement: the unique index is never made.
CreateTableNoIndex(s) ==
    [columns |-> (IF s.columns = {} THEN {"id", "file_path", "tags"} ELSE s.columns)
                    \cup {"content_hash"},
     index |-> s.index]

\* create_table: CREATE TABLE IF NOT EXISTS, the migration to content_hash,
\* CREATE UNIQUE INDEX IF NOT EXISTS idx_content_hash.
CreateTable(s) ==
    LET made == IF s.columns = {} THEN {"id", "file_path", "tags"} ELSE s.columns
        migrated == IF "file_unique_id" \in made
                    THEN (made \ {"file_unique_id"}) \cup {"content_hash"}
                    ELSE made \cup {"content_hash"}
    IN [columns |-> migrated, index |-> TRUE]

\* create_connection: connect, then create_table.
CreateConnection(s) == CreateTable(s)

\* id integer PRIMARY KEY: one more than the largest rowid in the table.
NextRowId(rows) ==
    IF rows = <<>> THEN 1
    ELSE 1 + CHOOSE m \in {rows[i].id : i \in 1..Len(rows)} :
                 \A j \in 1..Len(rows) : rows[j].id <= m

\* The unique index made on file_path instead of content_hash.
IndexConflictOnPath(s, rows, meme_data) ==
    /\ s.index
    /\ \E i \in 1..Len(rows) : rows[i].file_path = meme_data[2]

\* The unique index idx_content_hash rejects a second row with the same
\* non-NULL content_hash.
IndexConflict(s, rows, meme_data) ==
    /\ s.index
    /\ meme_data[1] # None
    /\ \E i \in 1..Len(rows) : rows[i].content_hash = meme_data[1]

\* insert_meme(conn, (content_hash, file_path, tags)): INSERT and commit, or
\* sqlite3.OperationalError (no such table, no such column), or
\* sqlite3.IntegrityError.
InsertMeme(s, rows, meme_data) ==
    IF ~({"content_hash", "file_path", "tags"} \subseteq s.columns)
    THEN [error |-> "OperationalError", rows |-> rows, lastrowid |-> 0]
    ELSE IF IndexConflict(s, rows, meme_data)
    THEN [error |-> "IntegrityError", rows |-> rows, lastrowid |-> 0]
    ELSE [error |-> None,
          rows |-> Append(rows, [id |-> NextRowId(rows),
                                 file_path |-> meme_data[2],
                                 tags |-> meme_data[3],
                                 content_hash |-> meme_data[1]]),
          lastrowid |-> NextRowId(rows)]

\* get_all_memes: SELECT id, file_path, tags, content_hash FROM memes
GetAllMemes(rows) ==
    [i \in 1..Len(rows) |->
        <<rows[i].id, rows[i].file_path, rows[i].tags, rows[i].content_hash>>]

\* get_all_hashes: the set of the non-NULL content_hash values
GetAllHashes(rows) == {rows[i].content_hash : i \in 1..Len(rows)} \ {None}

\* clear_database without conn.commit(): the DELETE is rolled back on close.
ClearDatabaseNoCommit(rows) == rows

\* clear_database: DELETE FROM memes
ClearDatabase(rows) == <<>>

\* The functions module database defines.
DatabaseAttrs ==
    {"create_connection", "create_table", "insert_meme", "get_all_memes",
     "get_all_hashes", "clear_database"}

-----------------------------------------------------------------------------
(* main.py: the inputs of the handlers.                                    *)

MaxSlots == 2     \* handler invocations in flight at once
MaxClears == 2    \* clear_database runs in one behaviour

Slots == 1..MaxSlots

JpgExt == <<".", "j", "p", "g">>

\* The photo messages the sender can post: the file id Telegram gives the
\* upload and the caption typed with it.
PhotoUpdates ==
    { [file_id |-> <<"f", "1">>, caption |-> <<"C", "a", "t", "!", " ", "o", "n">>],
      [file_id |-> <<"f", "2">>, caption |-> <<>>],
      [file_id |-> <<"g", "1">>, caption |-> <<"a", "_", "d", "!">>] }

\* The bytes file.download_to_drive writes for a file id: f1 and f2 are two
\* uploads of the same picture.
Download(file_id) ==
    IF Head(file_id) = "f" THEN "c1"
    ELSE IF Head(file_id) = "s" THEN "c3"
    ELSE IF Head(file_id) = "u" THEN "c4"
    ELSE "c2"

\* _calculate_hash: the SHA256 hex digest of the bytes of a file.
CalculateHash(content) ==
    IF content = "c1" THEN "h1"
    ELSE IF content = "c3" THEN "h3"
    ELSE IF content = "c4" THEN "h4"
    ELSE "h2"

\* file_name = f"{photo_obj.file_id}.jpg"
FileName(file_id) == file_id \o JpgExt

\* Whether ml.py's module initialisation loaded processor and model.
OcrLoaded == TRUE

\* States of the clear conversation, and the callback data of its buttons.
CONFIRM_CLEAR == 0
CANCEL_CLEAR == 1
END == -1
CallbackData == {CONFIRM_CLEAR, CANCEL_CLEAR}

IdleTask ==
    [kind |-> "idle", pc |-> "idle", file_id |-> <<>>, caption |-> <<>>,
     conn |-> FALSE, temp |-> None, existing_hashes |-> {}, data |-> END,
     reply |-> None, count |-> 0, epoch |-> 0, exc |-> None, ocr |-> None,
     user |-> 0]

Free(t) == t.pc \in {"idle", "done"}

\* A handler that starts: its locals before its first await.
Start(kind, pc) == [IdleTask EXCEPT !.kind = kind, !.pc = pc]

-----------------------------------------------------------------------------
(* save_photo.  Each action runs the handler from one await to the next.   *)

\* A photo message is dispatched: up to `await context.bot.get_file`.
SavePhoto(slot, update) ==
    /\ Free(tasks[slot])
    /\ tasks' = [tasks EXCEPT ![slot] =
                    [Start("save_photo", "get_file") EXCEPT
                        !.file_id = update.file_id, !.caption = update.caption]]
    /\ UNCHANGED <<schema, memes, memeFiles, thumbFiles, conv, clears, quiet, gateVars, search>>

\* create_connection, the temporary file, up to `await file.download_to_drive`.
SaveConnect(slot) ==
    /\ tasks[slot].kind = "save_photo" /\ tasks[slot].pc = "get_file"
    /\ schema' = CreateConnection(schema)
    /\ tasks' = [tasks EXCEPT ![slot].pc = "download", ![slot].conn = TRUE,
                              ![slot].temp = "empty"]
    /\ UNCHANGED <<memes, memeFiles, thumbFiles, conv, clears, quiet, gateVars, search>>

\* tags.update(ocr_tags); tags.update(caption_tags)
SaveTags(content, caption) ==
    Range(GetTagsForImage(content, OcrLoaded)) \cup CaptionTags(caption)

\* save_photo with an await inside the move: the row is inserted and the copy
\* to MEME_DIR begun in one step, the copy ended and the thumbnail made in the
\* next one.
SaveStoreInterruptible(slot) ==
    LET t == tasks[slot]
        content == Download(t.file_id)
        file_name == FileName(t.file_id)
        tags == SaveTags(content, t.caption)
        ins == InsertMeme(schema, memes,
                          <<CalculateHash(content), file_name, TagString(tags)>>)
    IN /\ t.kind = "save_photo"
       /\ \/ /\ t.pc = "download" /\ ins.error = None
             /\ memes' = ins.rows
             /\ memeFiles' = (file_name :> "partial") @@ memeFiles
             /\ quiet' = FALSE
             /\ tasks' = [tasks EXCEPT ![slot].pc = "moving", ![slot].temp = content,
                                       ![slot].epoch = clears]
             /\ UNCHANGED thumbFiles
          \/ /\ t.pc = "moving"
             /\ memeFiles' = (file_name :> content) @@ memeFiles
             /\ thumbFiles' = thumbFiles \cup {file_name}
             /\ tasks' = [tasks EXCEPT
                    ![slot].pc = "reply", ![slot].temp = None,
                    ![slot].reply = IF tags # {} THEN "Meme saved with tags"
                                    ELSE "Meme saved. No tags were found"]
             /\ UNCHANGED <<memes, quiet>>
          \/ /\ t.pc = "download" /\ ins.error # None
             /\ tasks' = [tasks EXCEPT
                    ![slot].pc = "reply", ![slot].temp = content,
                    ![slot].epoch = clears,
                    ![slot].reply = "This meme is already saved."]
             /\ UNCHANGED <<memes, memeFiles, thumbFiles, quiet>>
       /\ UNCHANGED <<schema, conv, clears, gateVars, search>>

\* The downloaded bytes are hashed and tagged, the row is inserted, the file is
\* moved and its thumbnail made, up to `await update.message.reply_text`.
SaveStore(slot) ==
    LET t == tasks[slot]
        content == Download(t.file_id)
        file_name == FileName(t.file_id)
        tags == SaveTags(content, t.caption)
        ins == InsertMeme(schema, memes,
                          <<CalculateHash(content), file_name, TagString(tags)>>)
    IN /\ t.kind = "save_photo" /\ t.pc = "download"
       /\ IF ins.error = None
          THEN /\ memes' = ins.rows
               /\ memeFiles' = (file_name :> content) @@ memeFiles
               /\ thumbFiles' = thumbFiles \cup {file_name}
               /\ quiet' = FALSE
               /\ tasks' = [tasks EXCEPT
                    ![slot].pc = "reply", ![slot].temp = None,
                    ![slot].epoch = clears,
                    ![slot].reply = IF tags # {} THEN "Meme saved with tags"
                                    ELSE "Meme saved. No tags were found"]
          ELSE /\ tasks' = [tasks EXCEPT
                    ![slot].pc = "reply", ![slot].temp = content,
                    ![slot].epoch = clears,
                    ![slot].reply = "This meme is already saved."]
               /\ UNCHANGED <<memes, memeFiles, thumbFiles, quiet>>
       /\ UNCHANGED <<schema, conv, clears, gateVars, search>>

\* finally without os.remove(temp_file_path).
SaveFinallyKeepTemp(slot) ==
    /\ tasks[slot].kind = "save_photo" /\ tasks[slot].pc = "reply"
    /\ tasks' = [tasks EXCEPT ![slot].pc = "done", ![slot].conn = FALSE]
    /\ UNCHANGED <<schema, memes, memeFiles, thumbFiles, conv, clears, quiet, gateVars, search>>

\* finally: conn.close(), and the temporary file removed if it was not moved.
SaveFinally(slot) ==
    /\ tasks[slot].kind = "save_photo" /\ tasks[slot].pc = "reply"
    /\ tasks' = [tasks EXCEPT ![slot].pc = "done", ![slot].conn = FALSE,
                              ![slot].temp = None]
    /\ UNCHANGED <<schema, memes, memeFiles, thumbFiles, conv, clears, quiet, gateVars, search>>

-----------------------------------------------------------------------------
(* rescan                                                                  *)

\* /rescan is dispatched: up to `await reply_text("Starting library rescan...")`.
Rescan(slot) ==
    /\ Free(tasks[slot])
    /\ tasks' = [tasks EXCEPT ![slot] = Start("rescan", "starting")]
    /\ UNCHANGED <<schema, memes, memeFiles, thumbFiles, conv, clears, quiet, gateVars, search>>

\* create_connection, existing_hashes = get_all_hashes, up to
\* `await reply_text("Scanning files...")`.
RescanRead(slot) ==
    /\ tasks[slot].kind = "rescan" /\ tasks[slot].pc = "starting"
    /\ schema' = CreateConnection(schema)
    /\ tasks' = [tasks EXCEPT ![slot].pc = "scanning", ![slot].conn = TRUE,
                              ![slot].existing_hashes = GetAllHashes(memes)]
    /\ UNCHANGED <<memes, memeFiles, thumbFiles, conv, clears, quiet, gateVars, search>>

\* One pass of the body of `for filename in os.listdir(MEME_DIR)`; st holds the
\* rows, the thumbnails and the two counters.
RescanFile(st, s, files, existing_hashes, filename) ==
    LET content_hash == CalculateHash(files[filename])
        tags == GetTagsForImage(files[filename], OcrLoaded)
        ins == InsertMeme(s, st.rows,
                          <<content_hash, filename, TagString(Range(tags))>>)
        fresh == content_hash \notin existing_hashes
        thumb(x) == IF filename \notin x.thumbs
                    THEN [x EXCEPT !.thumbs = @ \cup {filename},
                                   !.thumb_generated_count = @ + 1]
                    ELSE x
    IN IF fresh /\ ins.error # None THEN st      \* except IntegrityError: continue
       ELSE IF fresh
       THEN thumb([st EXCEPT !.rows = ins.rows, !.added_count = @ + 1])
       ELSE thumb(st)

RECURSIVE RescanLoopNoExcept(_, _, _, _, _)
\* The loop without `except sqlite3.IntegrityError: continue`: the first losing
\* insert ends it.
RescanLoopNoExcept(st, s, files, existing_hashes, listing) ==
    IF listing = <<>> THEN st
    ELSE IF /\ CalculateHash(files[Head(listing)]) \notin existing_hashes
            /\ IndexConflict(s, st.rows,
                             <<CalculateHash(files[Head(listing)]), Head(listing), <<>>>>)
         THEN st
         ELSE RescanLoopNoExcept(
                  RescanFile(st, s, files, existing_hashes, Head(listing)),
                  s, files, existing_hashes, Tail(listing))

RECURSIVE RescanLoop(_, _, _, _, _)
\* The for loop over a listing of MEME_DIR.
RescanLoop(st, s, files, existing_hashes, listing) ==
    IF listing = <<>> THEN st
    ELSE RescanLoop(RescanFile(st, s, files, existing_hashes, Head(listing)),
                    s, files, existing_hashes, Tail(listing))

\* os.listdir returns the names in arbitrary order.
Listings(files) ==
    {l \in [1..Cardinality(DOMAIN files) -> DOMAIN files] :
        \A i, j \in DOMAIN l : i # j => l[i] # l[j]}

\* The loop over the files, up to `await reply_text("Rescan complete...")`.
RescanScan(slot) ==
    /\ tasks[slot].kind = "rescan" /\ tasks[slot].pc = "scanning"
    /\ \E listing \in Listings(memeFiles) :
         LET st == RescanLoop([rows |-> memes, thumbs |-> thumbFiles,
                               added_count |-> 0, thumb_generated_count |-> 0],
                              schema, memeFiles, tasks[slot].existing_hashes, listing)
         IN /\ memes' = st.rows
            /\ thumbFiles' = st.thumbs
            /\ tasks' = [tasks EXCEPT ![slot].pc = "reply",
                                      ![slot].count = st.added_count,
                                      ![slot].reply = "Rescan complete."]
    /\ quiet' = (tasks[slot].existing_hashes = GetAllHashes(memes))
    /\ UNCHANGED <<schema, memeFiles, conv, clears, gateVars, search>>

\* finally: conn.close()
RescanFinally(slot) ==
    /\ tasks[slot].kind = "rescan" /\ tasks[slot].pc = "reply"
    /\ tasks' = [tasks EXCEPT ![slot].pc = "done", ![slot].conn = FALSE]
    /\ UNCHANGED <<schema, memes, memeFiles, thumbFiles, conv, clears, quiet, gateVars, search>>

-----------------------------------------------------------------------------
(* retag_all                                                               *)

\* /retag is dispatched: up to `await reply_text("Starting to re-tag...")`.
RetagAll(slot) ==
    /\ Free(tasks[slot])
    /\ tasks' = [tasks EXCEPT ![slot] = Start("retag_all", "starting")]
    /\ UNCHANGED <<schema, memes, memeFiles, thumbFiles, conv, clears, quiet, gateVars, search>>

\* One pass of the body of `for i, meme in enumerate(all_memes)`; st holds the
\* rows, processed_count and the exception that ended the loop, if any.
\* db.update_meme_tags is looked up in module database when the line runs.
RetagMeme(st, files, meme) ==
    IF st.error # None THEN st
    ELSE IF meme[4] = None THEN st                      \* missing content_hash
    ELSE IF meme[2] \notin DOMAIN files THEN st         \* file not found
    ELSE IF "update_meme_tags" \notin DatabaseAttrs
         THEN [st EXCEPT !.error = "AttributeError"]
         ELSE [st EXCEPT !.processed_count = @ + 1]

RECURSIVE RetagLoop(_, _, _)
RetagLoop(st, files, all_memes) ==
    IF all_memes = <<>> THEN st
    ELSE RetagLoop(RetagMeme(st, files, Head(all_memes)), files, Tail(all_memes))

\* create_connection, get_all_memes, the loop, up to the `await reply_text` of
\* the try block or of `except Exception`.
RetagRun(slot) ==
    LET st == RetagLoop([rows |-> memes, processed_count |-> 0, error |-> None],
                        memeFiles, GetAllMemes(memes))
    IN /\ tasks[slot].kind = "retag_all" /\ tasks[slot].pc = "starting"
       /\ schema' = CreateConnection(schema)
       /\ memes' = st.rows
       /\ tasks' = [tasks EXCEPT
            ![slot].pc = "reply", ![slot].conn = TRUE,
            ![slot].count = st.processed_count,
            ![slot].reply = IF st.error = None THEN "Re-tagging complete."
                            ELSE "An error occurred"]
       /\ UNCHANGED <<memeFiles, thumbFiles, conv, clears, quiet, gateVars, search>>

\* finally: conn.close()
RetagFinally(slot) ==
    /\ tasks[slot].kind = "retag_all" /\ tasks[slot].pc = "reply"
    /\ tasks' = [tasks EXCEPT ![slot].pc = "done", ![slot].conn = FALSE]
    /\ UNCHANGED <<schema, memes, memeFiles, thumbFiles, conv, clears, quiet, gateVars, search>>

-----------------------------------------------------------------------------
(* clear and clear_confirmation, under the ConversationHandler of main().  *)

\* /clear is dispatched (entry point and fallback): up to the `await
\* reply_text` that shows the two buttons.
Clear(slot) ==
    /\ Free(tasks[slot])
    /\ tasks' = [tasks EXCEPT ![slot] = Start("clear", "asking")]
    /\ UNCHANGED <<schema, memes, memeFiles, thumbFiles, conv, clears, quiet, gateVars, search>>

\* return CONFIRM_CLEAR
ClearAsked(slot) ==
    /\ tasks[slot].kind = "clear" /\ tasks[slot].pc = "asking"
    /\ conv' = CONFIRM_CLEAR
    /\ tasks' = [tasks EXCEPT ![slot].pc = "done"]
    /\ UNCHANGED <<schema, memes, memeFiles, thumbFiles, clears, quiet, gateVars, search>>

\* A button press reaches clear_confirmation in state CONFIRM_CLEAR: up to
\* `await query.answer()`.
ClearConfirmation(slot, data) ==
    /\ Free(tasks[slot])
    /\ conv = CONFIRM_CLEAR
    /\ tasks' = [tasks EXCEPT ![slot] =
                    [Start("clear_confirmation", "answering") EXCEPT !.data = data]]
    /\ UNCHANGED <<schema, memes, memeFiles, thumbFiles, conv, clears, quiet, gateVars, search>>

\* clear_confirmation without the test of query.data: either button clears.
ClearDecideAnyChoice(slot) ==
    /\ tasks[slot].kind = "clear_confirmation" /\ tasks[slot].pc = "answering"
    /\ clears < MaxClears
    /\ schema' = CreateConnection(schema)
    /\ memes' = ClearDatabase(memes)
    /\ clears' = clears + 1
    /\ quiet' = FALSE
    /\ tasks' = [tasks EXCEPT ![slot].pc = "editing",
                              ![slot].reply = "Database cleared."]
    /\ UNCHANGED <<memeFiles, thumbFiles, conv, gateVars, search>>

\* if query.data == str(CONFIRM_CLEAR): clear_database; up to
\* `await query.edit_message_text`.
ClearDecide(slot) ==
    /\ tasks[slot].kind = "clear_confirmation" /\ tasks[slot].pc = "answering"
    /\ IF tasks[slot].data = CONFIRM_CLEAR
       THEN /\ clears < MaxClears
            /\ schema' = CreateConnection(schema)
            /\ memes' = ClearDatabase(memes)
            /\ clears' = clears + 1
            /\ quiet' = FALSE
            /\ tasks' = [tasks EXCEPT ![slot].pc = "editing",
                                      ![slot].reply = "Database cleared."]
       ELSE /\ tasks' = [tasks EXCEPT ![slot].pc = "editing",
                                      ![slot].reply = "Operation cancelled."]
            /\ UNCHANGED <<schema, memes, clears, quiet>>
    /\ UNCHANGED <<memeFiles, thumbFiles, conv, gateVars, search>>

\* return ConversationHandler.END
ClearEnd(slot) ==
    /\ tasks[slot].kind = "clear_confirmation" /\ tasks[slot].pc = "editing"
    /\ conv' = END
    /\ tasks' = [tasks EXCEPT ![slot].pc = "done"]
    /\ UNCHANGED <<schema, memes, memeFiles, thumbFiles, clears, quiet, gateVars, search>>

-----------------------------------------------------------------------------
(* The bot: handlers interleave at their awaits.                           *)

Init ==
    /\ schema = NoSchema
    /\ memes = <<>>
    /\ memeFiles = <<>>
    /\ thumbFiles = {}
    /\ tasks = [slot \in Slots |-> IdleTask]
    /\ conv = END
    /\ clears = 0
    /\ quiet = FALSE
    /\ now = 0
    /\ minted = {}
    /\ http = NoRequest
    /\ search = NoSearch

Next ==
    \E slot \in Slots :
        \/ \E update \in PhotoUpdates : SavePhoto(slot, update)
        \/ SaveConnect(slot)
        \/ SaveStore(slot)
        \/ SaveFinally(slot)
        \/ Rescan(slot)
        \/ RescanRead(slot)
        \/ RescanScan(slot)
        \/ RescanFinally(slot)
        \/ RetagAll(slot)
        \/ RetagRun(slot)
        \/ RetagFinally(slot)
        \/ Clear(slot)
        \/ ClearAsked(slot)
        \/ \E data \in CallbackData : ClearConfirmation(slot, data)
        \/ ClearDecide(slot)
        \/ ClearEnd(slot)

Spec == Init /\ [][Next]_vars

-----------------------------------------------------------------------------
(* The signed-URL gate: signer = URLSafeTimedSerializer(URL_SIGNING_SECRET) *)
(* and _get_secure_file_path.  A token is the sequence of the pieces that   *)
(* the separator "." delimits: payload, timestamp, signature.               *)

MaxTokenAge == 3600
MaxMinted == 1     \* tokens minted in one behaviour
MaxTicks == 1      \* the clock runs up to MaxTicks * (MaxTokenAge + 1) seconds

MEME_DIR == <<"/", "a", "p", "p", "/", "d", "a", "t", "a", "/", "m", "e", "m", "e", "s">>
THUMBNAIL_DIR ==
    <<"/", "a", "p", "p", "/", "d", "a", "t", "a", "/",
      "t", "h", "u", "m", "b", "n", "a", "i", "l", "s">>
\* sqlite3.connect("/app/data/db/memes.db")
DbFile ==
    <<"/", "a", "p", "p", "/", "d", "a", "t", "a", "/", "d", "b", "/",
      "m", "e", "m", "e", "s", ".", "d", "b">>

\* The pieces a token is made of.  Mac(p, t) is the HMAC under the secret of
\* the payload p joined to the timestamp t; no other signature can be made
\* without the secret.
Payload(p) == [kind |-> "payload", name |-> p, t |-> 0]
Stamp(t) == [kind |-> "timestamp", name |-> <<>>, t |-> t]
Mac(p, t) == [kind |-> "signature", name |-> p, t |-> t]
Junk == [kind |-> "junk", name |-> <<>>, t |-> 0]

\* signer.dumps(filename) at time t
Dumps(filename, t) == <<Payload(filename), Stamp(t), Mac(filename, t)>>

Front(seq) == SubSeq(seq, 1, Len(seq) - 1)
Last(seq) == seq[Len(seq)]

\* Signer.verify_signature(value, sig)
VerifySignature(value, sig) ==
    /\ Len(value) = 2
    /\ value[1].kind = "payload"
    /\ value[2].kind = "timestamp"
    /\ sig = Mac(value[1].name, value[2].t)

\* Signer.unsign: BadSignature when there is no separator or the signature
\* does not match; the exception carries the value before the last separator.
SignerUnsign(token) ==
    IF Len(token) < 2 THEN [exc |-> "BadSignature", value |-> <<>>]
    ELSE IF VerifySignature(Front(token), Last(token))
         THEN [exc |-> None, value |-> Front(token)]
         ELSE [exc |-> "BadSignature", value |-> Front(token)]

\* TimestampSigner.unsign with the age compared by >= : a token expires one
\* second early.
TimestampUnsignEarly(token, max_age, t) ==
    LET r == SignerUnsign(token)
    IN IF Len(r.value) < 2
       THEN [exc |-> IF r.exc # None THEN r.exc ELSE "BadTimeSignature", value |-> <<>>]
       ELSE IF r.exc # None THEN [exc |-> "BadTimeSignature", value |-> <<>>]
       ELSE IF Last(r.value).kind # "timestamp"
            THEN [exc |-> "BadTimeSignature", value |-> <<>>]
       ELSE IF t - Last(r.value).t >= max_age \/ t - Last(r.value).t < 0
            THEN [exc |-> "SignatureExpired", value |-> <<>>]
       ELSE [exc |-> None, value |-> Front(r.value)]

\* TimestampSigner.unsign(token, max_age) at time t.  Without a separator in
\* what Signer.unsign left, its BadSignature is raised again as it is.
TimestampUnsign(token, max_age, t) ==
    LET r == SignerUnsign(token)
    IN IF Len(r.value) < 2
       THEN [exc |-> IF r.exc # None THEN r.exc ELSE "BadTimeSignature", value |-> <<>>]
       ELSE IF r.exc # None THEN [exc |-> "BadTimeSignature", value |-> <<>>]
       ELSE IF Last(r.value).kind # "timestamp"
            THEN [exc |-> "BadTimeSignature", value |-> <<>>]
       ELSE IF t - Last(r.value).t > max_age \/ t - Last(r.value).t < 0
            THEN [exc |-> "SignatureExpired", value |-> <<>>]
       ELSE [exc |-> None, value |-> Front(r.value)]

\* signer.loads(token, max_age): unsign, then decode the payload.
Loads(token, max_age, t) ==
    LET r == TimestampUnsign(token, max_age, t)
    IN IF r.exc # None THEN [exc |-> r.exc, obj |-> <<>>]
       ELSE IF Len(r.value) = 1 /\ r.value[1].kind = "payload"
            THEN [exc |-> None, obj |-> r.value[1].name]
            ELSE [exc |-> "BadPayload", obj |-> <<>>]

\* os.path.join(base_dir, filename)
PathJoin(base_dir, filename) ==
    IF filename # <<>> /\ Head(filename) = "/" THEN filename
    ELSE base_dir \o <<"/">> \o filename

RECURSIVE Collapse(_, _)
\* The components of a normalised absolute path: "" and "." dropped, ".."
\* removing the component before it.
Collapse(comps, done) ==
    IF comps = <<>> THEN done
    ELSE IF Head(comps) \in {<<>>, <<".">>} THEN Collapse(Tail(comps), done)
    ELSE IF Head(comps) = <<".", ".">>
         THEN Collapse(Tail(comps), IF done = <<>> THEN done ELSE Front(done))
    ELSE Collapse(Tail(comps), Append(done, Head(comps)))

\* os.path.abspath of an absolute path
AbsPath(path) ==
    LET comps == Collapse(SplitAt(path, {"/"}, <<>>, <<>>), <<>>)
    IN IF comps = <<>> THEN <<"/">>
       ELSE <<"/">> \o StrJoin(<<"/">>, comps)

\* The regular files on disk.
Disk(files, thumbs) ==
    {MEME_DIR \o <<"/">> \o f : f \in DOMAIN files}
        \cup {THUMBNAIL_DIR \o <<"/">> \o f : f \in thumbs}
        \cup {DbFile}

\* full_path.startswith(os.path.abspath(base_dir))
InsideBase(full_path, base_dir) == StartsWith(full_path, AbsPath(base_dir))

\* _get_secure_file_path(token, base_dir) at time t, and what FastAPI answers:
\* the file, the HTTPException raised, or 500 for any other exception.
GetSecureFilePath(token, base_dir, t, disk) ==
    LET r == Loads(token, MaxTokenAge, t)
        full_path == AbsPath(PathJoin(base_dir, r.obj))
    IN IF r.exc \in {"SignatureExpired", "BadTimeSignature"}
       THEN [status |-> 403, detail |-> "Invalid or expired token",
             exc |-> r.exc, path |-> <<>>]
       ELSE IF r.exc # None
       THEN [status |-> 500, detail |-> "Internal Server Error",
             exc |-> r.exc, path |-> <<>>]
       ELSE IF ~InsideBase(full_path, base_dir)
       THEN [status |-> 403, detail |-> "Path traversal attempt detected",
             exc |-> None, path |-> <<>>]
       ELSE IF full_path \notin disk
       THEN [status |-> 404, detail |-> "File not found", exc |-> None, path |-> <<>>]
       ELSE [status |-> 200, detail |-> "image/jpeg", exc |-> None, path |-> full_path]

F1Jpg == <<"f", "1", ".", "j", "p", "g">>
G1Jpg == <<"g", "1", ".", "j", "p", "g">>

\* The payloads the gate is given signed: two file names of rows, one of them
\* with no file, and relative payloads that climb out of the asset root.
GatePayloads ==
    { F1Jpg, G1Jpg,
      <<".", ".", "/", "d", "b", "/", "m", "e", "m", "e", "s", ".", "d", "b">>,
      <<".", ".", "/", "m", "e", "m", "e", "s", "2", "/">> \o F1Jpg,
      <<".", ".", "/", "m", "e", "m", "e", "s", "/">> \o F1Jpg }

\* What a client can present given a minted token: the token, the token with
\* one piece replaced by a piece the client can make (any payload, any
\* timestamp, junk), the token with pieces cut off its end, and text with no
\* separator at all.
Altered(token, t) ==
    {[token EXCEPT ![1] = Payload(p)] : p \in GatePayloads \ {token[1].name}}
        \cup ({[token EXCEPT ![2] = Stamp(t)]} \ {token})
        \cup {[token EXCEPT ![i] = Junk] : i \in 1..3}

Truncated(token) == {SubSeq(token, 1, 2), SubSeq(token, 1, 1), <<Junk>>}

BaseDirs == {MEME_DIR, THUMBNAIL_DIR}

InitGate ==
    /\ schema = CreateTable(NoSchema)
    /\ memes = <<>>
    /\ memeFiles = (F1Jpg :> "c1")
    /\ thumbFiles = {F1Jpg}
    /\ tasks = [slot \in Slots |-> IdleTask]
    /\ conv = END
    /\ clears = 0
    /\ quiet = FALSE
    /\ now = 0
    /\ minted = {}
    /\ http = NoRequest
    /\ search = NoSearch

\* int(time.time()) moves on.
Tick(d) ==
    /\ now + d <= MaxTicks * (MaxTokenAge + 1)
    /\ now' = now + d
    /\ UNCHANGED <<pipelineVars, minted, http, search>>

\* photo_token = signer.dumps(filename)
Mint(filename) ==
    /\ Cardinality(minted) < MaxMinted
    /\ minted' = minted \cup {Dumps(filename, now)}
    /\ UNCHANGED <<pipelineVars, now, http, search>>

\* The tokens a client can present at time t.
Presentable(tokens, t) ==
    tokens \cup UNION {Altered(token, t) \cup Truncated(token) : token \in tokens}

\* GET /memes/{token} and GET /thumbnails/{token}
Serve(base_dir, token) ==
    /\ token \in Presentable(minted, now)
    /\ http' = [base_dir |-> base_dir, token |-> token, at |-> now,
                response |-> GetSecureFilePath(token, base_dir, now,
                                               Disk(memeFiles, thumbFiles))]
    /\ UNCHANGED <<pipelineVars, now, minted, search>>

NextGate ==
    \/ \E d \in {MaxTokenAge - 1, MaxTokenAge, MaxTokenAge + 1} : Tick(d)
    \/ \E filename \in GatePayloads : Mint(filename)
    \/ \E base_dir \in BaseDirs, token \in Presentable(minted, now) :
           Serve(base_dir, token)

SpecGate == InitGate /\ [][NextGate]_vars

-----------------------------------------------------------------------------
(* save_photo when calls into the environment fail: Telegram, SQLite, the  *)
(* OCR model, the file system.  Updates are handled one at a time, as the  *)
(* Application built in main() does.                                       *)

\* The photo messages posted here: f1 and f2 as above, s1 and u1 pictures with
\* other text in them.
FaultUpdates ==
    { [file_id |-> <<"f", "1">>, caption |-> <<"C", "a", "t", "!", " ", "o", "n">>],
      [file_id |-> <<"f", "2">>, caption |-> <<>>],
      [file_id |-> <<"s", "1">>, caption |-> <<"t", "h", "e", " ", "x", "_", "1", "y">>],
      [file_id |-> <<"u", "1">>, caption |-> <<>>] }

\* What can fail before the temporary file exists, and after.
ConnectFaults == {"get_file", "connect", "create_table"}
StoreFaults == {"download", "ocr_unavailable", "ocr", "insert", "move", "thumbnail"}

\* No handler is running.
Idle == \A s \in Slots : Free(tasks[s])

\* The finally block without the removal of the temporary file.
FinallyKeepTemp(t) == [t EXCEPT !.pc = "done", !.conn = FALSE]

\* The finally block of save_photo, run by an exception that leaves the try:
\* conn.close(), os.remove(temp_file_path) if it is set and exists.
Finally(t) == [t EXCEPT !.pc = "done", !.conn = FALSE, !.temp = None]

\* An exception leaves save_photo: no reply is sent, PTB logs the error.
Raised(t, exc) == [Finally(t) EXCEPT !.exc = exc]

\* How the call of get_tags_for_image went.
OcrOutcome(faults) ==
    IF "ocr_unavailable" \in faults THEN "unavailable"
    ELSE IF "ocr" \in faults THEN "raised"
    ELSE "ok"

\* get_tags_for_image whose except clause returns the words found so far.
OcrTagsPartial(content, faults) ==
    GetTagsForImage(content, OcrLoaded /\ "ocr_unavailable" \notin faults)

\* get_tags_for_image when the model is not loaded, or processing raises:
\* both return [].
OcrTags(content, faults) ==
    IF "ocr" \in faults THEN <<>>
    ELSE GetTagsForImage(content, OcrLoaded /\ "ocr_unavailable" \notin faults)

\* A photo message is dispatched when no handler runs.
Submit(slot, update) == Idle /\ SavePhoto(slot, update)

\* From `await context.bot.get_file` up to `await file.download_to_drive`:
\* get_file raises, or sqlite3.connect raises and conn is None, or the
\* statements of create_table raise (swallowed there), or none of these.
SaveConnectOrFail(slot, fault) ==
    LET t == tasks[slot]
    IN /\ t.kind = "save_photo" /\ t.pc = "get_file"
       /\ IF fault = "get_file"
          THEN /\ tasks' = [tasks EXCEPT ![slot] =
                              [t EXCEPT !.pc = "done", !.exc = "TelegramError"]]
               /\ UNCHANGED schema
          ELSE IF fault = "connect"
          THEN /\ tasks' = [tasks EXCEPT ![slot] =
                              [t EXCEPT !.pc = "done",
                                        !.reply = "Error connecting to the database."]]
               /\ UNCHANGED schema
          ELSE /\ tasks' = [tasks EXCEPT ![slot].pc = "download", ![slot].conn = TRUE,
                                         ![slot].temp = "empty"]
               /\ schema' = IF fault = "create_table" THEN schema
                            ELSE CreateConnection(schema)
       /\ UNCHANGED <<memes, memeFiles, thumbFiles, conv, clears, quiet, gateVars, search>>

\* From `await file.download_to_drive` to the next await or to the exception
\* that ends the handler: the download, the hash, the tags, insert_meme,
\* shutil.move, the thumbnail; faults are the calls that fail on the way.
SaveStoreOrFail(slot, faults) ==
    LET t == tasks[slot]
        content == Download(t.file_id)
        file_name == FileName(t.file_id)
        tags == Range(OcrTags(content, faults)) \cup CaptionTags(t.caption)
        ins == IF "insert" \in faults
               THEN [error |-> "OperationalError", rows |-> memes, lastrowid |-> 0]
               ELSE InsertMeme(schema, memes,
                               <<CalculateHash(content), file_name, TagString(tags)>>)
        saved == IF tags # {} THEN "Meme saved with tags"
                 ELSE "Meme saved. No tags were found"
    IN /\ t.kind = "save_photo" /\ t.pc = "download"
       /\ IF "download" \in faults
          THEN /\ tasks' = [tasks EXCEPT ![slot] = Raised(t, "TelegramError")]
               /\ UNCHANGED <<memes, memeFiles, thumbFiles, quiet>>
          ELSE IF ins.error = "IntegrityError"
          THEN /\ tasks' = [tasks EXCEPT
                    ![slot].pc = "reply", ![slot].temp = content,
                    ![slot].epoch = clears, ![slot].ocr = OcrOutcome(faults),
                    ![slot].reply = "This meme is already saved."]
               /\ UNCHANGED <<memes, memeFiles, thumbFiles, quiet>>
          ELSE IF ins.error # None
          THEN /\ tasks' = [tasks EXCEPT ![slot] =
                              Raised([t EXCEPT !.ocr = OcrOutcome(faults)], ins.error)]
               /\ UNCHANGED <<memes, memeFiles, thumbFiles, quiet>>
          ELSE IF "move" \in faults
          THEN /\ memes' = ins.rows
               /\ quiet' = FALSE
               /\ tasks' = [tasks EXCEPT ![slot] =
                              Raised([t EXCEPT !.temp = content, !.epoch = clears,
                                               !.ocr = OcrOutcome(faults)],
                                     "OSError")]
               /\ UNCHANGED <<memeFiles, thumbFiles>>
          ELSE /\ memes' = ins.rows
               /\ quiet' = FALSE
               /\ memeFiles' = (file_name :> content) @@ memeFiles
               /\ thumbFiles' = IF "thumbnail" \in faults THEN thumbFiles
                                ELSE thumbFiles \cup {file_name}
               /\ tasks' = [tasks EXCEPT
                    ![slot].pc = "reply", ![slot].temp = None,
                    ![slot].epoch = clears, ![slot].ocr = OcrOutcome(faults),
                    ![slot].reply = saved]
       /\ UNCHANGED <<schema, conv, clears, gateVars, search>>

\* /rescan and /retag are dispatched when no handler runs.
StartRescan(slot) == Idle /\ Rescan(slot)
StartRetag(slot) == Idle /\ RetagAll(slot)

\* The handlers of this environment: photos whose calls may fail, rescan and
\* retag_all, one update at a time.
InitFaults == Init

NextFaults ==
    \E slot \in {1} :
        \/ \E update \in FaultUpdates : Submit(slot, update)
        \/ \E fault \in ConnectFaults \cup {"none"} : SaveConnectOrFail(slot, fault)
        \/ \E faults \in SUBSET StoreFaults : SaveStoreOrFail(slot, faults)
        \/ SaveFinally(slot)
        \/ StartRescan(slot)
        \/ RescanRead(slot)
        \/ RescanScan(slot)
        \/ RescanFinally(slot)
        \/ StartRetag(slot)
        \/ RetagRun(slot)
        \/ RetagFinally(slot)

SpecFaults == InitFaults /\ [][NextFaults]_vars

-----------------------------------------------------------------------------
(* inline_query: the search over all rows.                                 *)

PageSize == 50
MaxRecords == 52    \* rows of the table the search is run over

\* meme_tags = {t.strip() for t in meme[2].split(',') if t.strip()}
MemeTags(meme) ==
    {StrStrip(t) : t \in {x \in Range(StrSplitComma(meme[3])) : StrStrip(x) # <<>>}}

\* search_tags = {tag.strip() for tag in query.split() if len(tag.strip()) > 0}
SearchTags(query) ==
    {StrStrip(tag) : tag \in {x \in Range(StrSplit(query)) : Len(StrStrip(x)) > 0}}

\* The test with any() in place of issubset(): one common tag is enough.
MatchesAny(search_tags, meme) == search_tags \cap MemeTags(meme) # {}

\* search_tags.issubset(meme_tags)
Matches(search_tags, meme) == search_tags \subseteq MemeTags(meme)

\* The rows of all_memes the query keeps, in their order.
Filter(query, all_memes) ==
    IF query # <<>>
    THEN SelectSeq(all_memes, LAMBDA meme : Matches(SearchTags(query), meme))
    ELSE all_memes

\* The rows of results from the place each has after a sort: place[k] is the
\* place of results[k].
Placed(results, place) ==
    LET at == {<<place[k], k>> : k \in 1..Len(results)}
    IN [i \in 1..Len(results) |-> results[(CHOOSE p \in at : p[1] = i)[2]]]

\* The sort without reverse=True.
SortAscending(results) ==
    Placed(results,
           [k \in 1..Len(results) |->
               1 + Cardinality({j \in 1..Len(results) :
                                   \/ results[j][1] < results[k][1]
                                   \/ results[j][1] = results[k][1] /\ j < k})])

\* results.sort(key=lambda x: x[0], reverse=True): a row goes behind the rows
\* with a larger key and, the sort being stable, behind the earlier rows with
\* the same key.
SortResults(results) ==
    Placed(results,
           [k \in 1..Len(results) |->
               1 + Cardinality({j \in 1..Len(results) :
                                   \/ results[j][1] > results[k][1]
                                   \/ results[j][1] = results[k][1] /\ j < k})])

\* results[:50]
Page(results) == SubSeq(results, 1, IF Len(results) < PageSize THEN Len(results) ELSE PageSize)

\* Image.open(photo_path) succeeds on a file of MEME_DIR.
CanOpen(files, filename) == filename \in DOMAIN files

\* The loop that builds inline_results: a row whose image cannot be opened is
\* skipped (continue), the others get their two tokens.
InlineResults(results, files, t) ==
    LET kept == SelectSeq(results, LAMBDA result : CanOpen(files, result[2]))
    IN SubSeq([i \in 1..Len(kept) |->
                  [id |-> kept[i][1],
                   photo_token |-> Dumps(kept[i][2], t),
                   thumb_token |-> Dumps(kept[i][2], t)]], 1, Len(kept))

\* An inline query is handled, up to `await update.inline_query.answer`.
InlineQuery(text) ==
    \E results \in {Page(SortResults(Filter(StrLower(text), GetAllMemes(memes))))} :
       \E inline_results \in {InlineResults(results, memeFiles, now)} :
          /\ schema' = CreateConnection(schema)
          /\ minted' = minted \cup {inline_results[i].photo_token :
                                       i \in 1..Len(inline_results)}
          /\ search' = [answered |-> TRUE, query |-> text, results |-> results,
                        inline_results |-> inline_results]
          /\ UNCHANGED <<memes, memeFiles, thumbFiles, tasks, conv, clears, quiet,
                         now, http>>

\* The tag sets the rows of the searched table were stored with.
TagPool ==
    << {<<"c", "a", "t">>, <<"d", "o", "g">>},
       {<<"c", "a", "t", "d", "o", "g">>, <<"d", "o", "g">>},
       {<<"c", "a", "t">>},
       {<<"c", "a", "t", "s">>},
       {} >>

\* The inline queries typed, each with the tokens it asks for.
Queries ==
    { [text |-> <<>>, tokens |-> {}],
      [text |-> <<" ">>, tokens |-> {}],
      [text |-> <<"c", "a", "t">>, tokens |-> {<<"c", "a", "t">>}],
      [text |-> <<"C", "A", "T", " ", " ", "d", "o", "g", " ">>,
       tokens |-> {<<"c", "a", "t">>, <<"d", "o", "g">>}],
      [text |-> <<"d", "o", "g">>, tokens |-> {<<"d", "o", "g">>}],
      [text |-> <<"c", "a", "t", "!">>, tokens |-> {<<"c", "a", "t", "!">>}] }

\* The file id of the upload that became row id.
RowFileId(id) == <<"m", Chars[16 + (id \div 10)], Chars[16 + (id % 10)]>>

\* The tags of row id: the pool in rotation (pattern 0), or one tag set for
\* every row but the seventh, which has the next of the pool.
RowTags(pattern, id) ==
    IF pattern = 0 THEN TagPool[(id % Len(TagPool)) + 1]
    ELSE IF id = 7 THEN TagPool[(pattern % Len(TagPool)) + 1]
    ELSE TagPool[pattern]

\* The rows 1..n as save_photo inserted them.
SavedRows(pattern, n) ==
    [id \in 1..n |->
        [id |-> id, file_path |-> FileName(RowFileId(id)),
         tags |-> TagString(RowTags(pattern, id)),
         content_hash |-> "h" \o ToString(id)]]

\* The rows whose original is not in MEME_DIR: every row is committed before
\* its file is moved there, and the volume is shared with the host.
Lost(n) == { {}, {n} \cap (1..n), {id \in 1..n : id % 4 = 3} }

\* A table of up to MaxRecords rows, searched.
InitSearch ==
    /\ schema = CreateTable(NoSchema)
    /\ \E n \in 0..MaxRecords, pattern \in 0..2 :
          /\ memes = SavedRows(pattern, n)
          /\ \E lost \in Lost(n) :
                /\ memeFiles = [f \in {FileName(RowFileId(id)) : id \in (1..n) \ lost}
                                   |-> "c1"]
                /\ thumbFiles = DOMAIN memeFiles
    /\ tasks = [slot \in Slots |-> IdleTask]
    /\ conv = END
    /\ clears = 0
    /\ quiet = FALSE
    /\ now = 0
    /\ minted = {}
    /\ http = NoRequest
    /\ search = NoSearch

NextSearch == \E q \in Queries : InlineQuery(q.text)

SpecSearch == InitSearch /\ [][NextSearch]_vars

-----------------------------------------------------------------------------
(* restricted: the decorator on each of the nine handlers.                 *)

\* The environment variable ALLOWED_TELEGRAM_IDS: "1, 20".
ALLOWED_TELEGRAM_IDS_STR == <<"1", ",", " ", "2", "0">>

RECURSIVE StrToInt(_, _)
\* int(s) for a string of decimal digits.
StrToInt(s, acc) ==
    IF s = <<>> THEN acc
    ELSE StrToInt(Tail(s), 10 * acc + (Code[Head(s)] - Code["0"]))

\* {int(uid.strip()) for uid in ALLOWED_TELEGRAM_IDS_STR.split(',')}, or None
\* when the variable is unset or empty; None is the empty set here, which the
\* test `if ALLOWED_TELEGRAM_IDS and ...` treats alike.
ALLOWED_TELEGRAM_IDS ==
    IF ALLOWED_TELEGRAM_IDS_STR = <<>> THEN {}
    ELSE {StrToInt(StrStrip(uid), 0) : uid \in Range(StrSplitComma(ALLOWED_TELEGRAM_IDS_STR))}

\* update.effective_user.id of the senders: 1 is on the list, 2 is not.
Users == {1, 2}

NotAuthorized == "You are not authorized to use this bot."

\* A handler registered without the decorator.
DeniedNever(user_id) == FALSE

\* if ALLOWED_TELEGRAM_IDS and user_id not in ALLOWED_TELEGRAM_IDS
Denied(user_id) == ALLOWED_TELEGRAM_IDS # {} /\ user_id \notin ALLOWED_TELEGRAM_IDS

\* The updates main() routes to a handler: photos, inline queries, the six
\* commands and the two buttons of the confirmation.
Event(kind) ==
    [kind |-> kind, file_id |-> <<>>, caption |-> <<>>, text |-> <<>>, data |-> END]

Events ==
    {[Event("save_photo") EXCEPT !.file_id = u.file_id, !.caption = u.caption] :
        u \in PhotoUpdates}
    \cup {[Event("inline_query") EXCEPT !.text = q] : q \in {<<>>, <<"C", "a", "t">>}}
    \cup {Event(k) : k \in {"start", "dump", "clear", "regenerate_thumbnails",
                            "rescan", "retag_all"}}
    \cup {[Event("clear_confirmation") EXCEPT !.data = d] : d \in CallbackData}

\* The branch of the decorator that denies: the message is answered with the
\* refusal, the inline query with an empty list, the button press with an
\* alert; the handler is not called and wrapped returns None.
Deny(slot, user_id, event) ==
    /\ tasks' = [tasks EXCEPT ![slot] =
                    [Start(event.kind, "done") EXCEPT
                        !.user = user_id,
                        !.reply = IF event.kind = "inline_query" THEN None
                                  ELSE NotAuthorized]]
    /\ search' = IF event.kind = "inline_query"
                 THEN [answered |-> TRUE, query |-> event.text,
                       results |-> <<>>, inline_results |-> <<>>]
                 ELSE search
    /\ UNCHANGED <<schema, memes, memeFiles, thumbFiles, conv, clears, quiet, gateVars>>

\* The locals of the handler called for the event, at its first await.
EntryTask(event) ==
    IF event.kind = "save_photo"
    THEN [Start("save_photo", "get_file") EXCEPT
             !.file_id = event.file_id, !.caption = event.caption]
    ELSE IF event.kind = "inline_query" THEN Start("inline_query", "done")
    ELSE IF event.kind = "start" THEN [Start("start", "reply") EXCEPT !.reply = "Hi!"]
    ELSE IF event.kind = "dump"
    THEN [Start("dump", "reply") EXCEPT !.reply = "Database content:",
                                        !.count = Len(GetAllMemes(memes))]
    ELSE IF event.kind = "clear" THEN Start("clear", "asking")
    ELSE IF event.kind = "clear_confirmation"
    THEN [Start("clear_confirmation", "answering") EXCEPT !.data = event.data]
    ELSE Start(event.kind, "starting")

\* return await func(update, context): the handler runs to its first await;
\* inline_query and dump open the database before it.
Call(slot, user_id, event) ==
    /\ tasks' = [tasks EXCEPT ![slot] = [EntryTask(event) EXCEPT !.user = user_id]]
    /\ IF event.kind = "inline_query"
       THEN \E results \in {Page(SortResults(Filter(StrLower(event.text),
                                                    GetAllMemes(memes))))} :
               \E inline_results \in {InlineResults(results, memeFiles, now)} :
                  /\ schema' = CreateConnection(schema)
                  /\ minted' = minted \cup {inline_results[i].photo_token :
                                               i \in 1..Len(inline_results)}
                  /\ search' = [answered |-> TRUE, query |-> event.text,
                                results |-> results, inline_results |-> inline_results]
       ELSE /\ schema' = IF event.kind = "dump" THEN CreateConnection(schema) ELSE schema
            /\ UNCHANGED <<minted, search>>
    /\ UNCHANGED <<memes, memeFiles, thumbFiles, conv, clears, quiet, now, http>>

\* wrapped(update, context) for an update the application routes to a
\* handler, one update at a time; a button press is routed to
\* clear_confirmation in state CONFIRM_CLEAR only.
Restricted(slot, user_id, event) ==
    /\ Idle
    /\ event.kind = "clear_confirmation" => conv = CONFIRM_CLEAR
    /\ IF Denied(user_id) THEN Deny(slot, user_id, event)
       ELSE Call(slot, user_id, event)

\* regenerate_thumbnails from its first reply to its last: a thumbnail is
\* written for every row whose original exists and has none.
RegenerateRun(slot) ==
    LET rows == GetAllMemes(memes)
        generated == {rows[i][2] : i \in {k \in 1..Len(rows) :
                          rows[k][2] \in DOMAIN memeFiles /\ rows[k][2] \notin thumbFiles}}
    IN /\ tasks[slot].kind = "regenerate_thumbnails" /\ tasks[slot].pc = "starting"
       /\ schema' = CreateConnection(schema)
       /\ thumbFiles' = thumbFiles \cup generated
       /\ tasks' = [tasks EXCEPT ![slot].pc = "reply",
                                 ![slot].count = Cardinality(generated),
                                 ![slot].reply = "Thumbnail regeneration complete."]
       /\ UNCHANGED <<memes, memeFiles, conv, clears, quiet, gateVars, search>>

\* start, dump and regenerate_thumbnails return after their last reply.
HandlerReturn(slot) ==
    /\ tasks[slot].kind \in {"start", "dump", "regenerate_thumbnails"}
    /\ tasks[slot].pc = "reply"
    /\ tasks' = [tasks EXCEPT ![slot].pc = "done"]
    /\ UNCHANGED <<schema, memes, memeFiles, thumbFiles, conv, clears, quiet, gateVars, search>>

\* The bot behind the decorator: senders on and off the list send every kind
\* of update, one update at a time.
InitAuth == Init

NextAuth ==
    \E slot \in {1} :
        \/ \E user_id \in Users, event \in Events : Restricted(slot, user_id, event)
        \/ SaveConnect(slot)
        \/ SaveStore(slot)
        \/ SaveFinally(slot)
        \/ RescanRead(slot)
        \/ RescanScan(slot)
        \/ RescanFinally(slot)
        \/ RetagRun(slot)
        \/ RetagFinally(slot)
        \/ ClearAsked(slot)
        \/ ClearDecide(slot)
        \/ ClearEnd(slot)
        \/ RegenerateRun(slot)
        \/ HandlerReturn(slot)

SpecAuth == InitAuth /\ [][NextAuth]_vars

-----------------------------------------------------------------------------
(* The library over time: photos stored with or without thumbnail, the     *)
(* table cleared, the directory rescanned, one update at a time.           *)

\* /clear and a button press are dispatched when no handler runs.
StartClear(slot) == Idle /\ Clear(slot)
Confirm(slot, data) == Idle /\ ClearConfirmation(slot, data)

NextLibrary ==
    \E slot \in {1} :
        \/ \E update \in PhotoUpdates : Submit(slot, update)
        \/ SaveConnect(slot)
        \/ \E faults \in {{}, {"thumbnail"}} : SaveStoreOrFail(slot, faults)
        \/ SaveFinally(slot)
        \/ StartClear(slot)
        \/ ClearAsked(slot)
        \/ \E data \in CallbackData : Confirm(slot, data)
        \/ ClearDecide(slot)
        \/ ClearEnd(slot)
        \/ StartRescan(slot)
        \/ RescanRead(slot)
        \/ RescanScan(slot)
        \/ RescanFinally(slot)

SpecLibrary == Init /\ [][NextLibrary]_vars

-----------------------------------------------------------------------------
(* Properties of the ingestion pipeline, checked under Spec.               *)

Hashes == {CalculateHash(c) : c \in Contents}

RowsWith(rows, content_hash) ==
    {i \in 1..Len(rows) : rows[i].content_hash = content_hash}

Saved(t) == t.reply \in {"Meme saved with tags", "Meme saved. No tags were found"}
Duplicate(t) == t.reply = "This meme is already saved."

\* The handler in the slot has run its insert and is at or past its reply.
Stored(t) == t.kind = "save_photo" /\ t.pc \in {"reply", "done"}

TaskHash(t) == CalculateHash(Download(t.file_id))

\* The step of save_photo from the end of the download to its reply.
SaveStoreStep(slot) ==
    /\ tasks[slot].kind = "save_photo"
    /\ tasks[slot].pc = "download"
    /\ tasks'[slot].pc = "reply"

\* Two submissions of the same bytes with no clear between their inserts are
\* never both saved, and while no clear has run since, one row holds the bytes.
C1_Pair ==
    \A a, b \in Slots :
        (/\ a # b
         /\ Stored(tasks[a]) /\ Stored(tasks[b])
         /\ TaskHash(tasks[a]) = TaskHash(tasks[b])
         /\ tasks[a].epoch = tasks[b].epoch)
        => /\ ~(Saved(tasks[a]) /\ Saved(tasks[b]))
           /\ Saved(tasks[a]) \/ Duplicate(tasks[a])
           /\ Saved(tasks[b]) \/ Duplicate(tasks[b])
           /\ tasks[a].epoch = clears
                => Cardinality(RowsWith(memes, TaskHash(tasks[a]))) = 1

\* The insert of a submission whose bytes are not stored reports saved and
\* leaves one row for them; the insert of one whose bytes are stored reports
\* the duplicate and leaves the rows alone.
C1_Insert ==
    \A slot \in Slots :
        SaveStoreStep(slot) =>
            IF RowsWith(memes, TaskHash(tasks[slot])) = {}
            THEN /\ Saved(tasks'[slot])
                 /\ Cardinality(RowsWith(memes', TaskHash(tasks[slot]))) = 1
            ELSE /\ Duplicate(tasks'[slot])
                 /\ memes' = memes

\* C1: when save_photo runs twice on the same bytes, in sequence or interleaved
\* at their awaits, under the same or different file ids, one row with that
\* content hash exists afterwards; the insert that commits first reports
\* saved, the other reports "This meme is already saved." and writes no row.
C1_SecondSubmissionIsDuplicate == [](C1_Pair) /\ [][C1_Insert]_vars

\* Two handlers in flight at once for the same bytes under different file
\* ids, both past their insert: one saved, one duplicate.
C1_Witness ==
    \E a, b \in Slots :
        /\ a # b
        /\ tasks[a].kind = "save_photo" /\ tasks[a].pc = "reply"
        /\ tasks[b].kind = "save_photo" /\ tasks[b].pc = "reply"
        /\ tasks[a].file_id # tasks[b].file_id
        /\ TaskHash(tasks[a]) = TaskHash(tasks[b])
        /\ Saved(tasks[a]) /\ Duplicate(tasks[b])
        /\ tasks[b].temp = Download(tasks[b].file_id)

\* Every row has a content hash and no two rows share one.
C2_UniqueNonNull ==
    /\ \A i \in 1..Len(memes) : memes[i].content_hash # None
    /\ \A i, j \in 1..Len(memes) :
           i # j => memes[i].content_hash # memes[j].content_hash

\* The step of rescan that runs the loop over the files.
RescanScanStep(slot) ==
    /\ tasks[slot].kind = "rescan"
    /\ tasks[slot].pc = "scanning"
    /\ tasks'[slot].pc = "reply"

\* The loop of rescan reaches every file, whichever inserts it loses: when it
\* ends, the hash of every file of MEME_DIR that was not among the hashes the
\* rescan had read is in the table, and the handler reports completion.
C2_RescanCompletes ==
    \A slot \in Slots :
        RescanScanStep(slot) =>
            /\ \A f \in DOMAIN memeFiles :
                   CalculateHash(memeFiles[f]) \notin tasks[slot].existing_hashes
                       => CalculateHash(memeFiles[f]) \in GetAllHashes(memes')
            /\ tasks'[slot].reply = "Rescan complete."

C8_RescanIdempotent ==
    [][\A slot \in Slots :
          (/\ RescanScanStep(slot)
           /\ quiet
           /\ tasks[slot].existing_hashes = GetAllHashes(memes))
          => /\ memes' = memes
             /\ tasks'[slot].count = 0]_vars

\* A first rescan added rows over a directory with two files of the same
\* bytes and a third file, and a second rescan run right after it added none.
C8_Witness ==
    \E a, b \in Slots :
        /\ a # b
        /\ tasks[a].kind = "rescan" /\ tasks[a].pc = "done" /\ tasks[a].count = 2
        /\ tasks[b].kind = "rescan" /\ tasks[b].pc = "reply" /\ tasks[b].count = 0
        /\ tasks[b].existing_hashes = GetAllHashes(memes)
        /\ quiet
        /\ Cardinality(DOMAIN memeFiles) = 3
        /\ Len(memes) = 2

\* The step of clear_confirmation that runs clear_database.
ClearStep(slot) ==
    /\ tasks[slot].kind = "clear_confirmation"
    /\ tasks[slot].pc = "answering"
    /\ tasks[slot].data = CONFIRM_CLEAR
    /\ tasks'[slot].pc = "editing"

\* C9: after a confirmed clear, get_all_memes returns the empty sequence, and
\* an insert of any content hash, one stored before the clear included, is
\* accepted.
C9_ClearThenInsert ==
    [][\A slot \in Slots :
          ClearStep(slot) =>
              /\ GetAllMemes(memes') = <<>>
              /\ \A h \in GetAllHashes(memes) \cup Hashes :
                     InsertMeme(schema', memes', <<h, <<"x">>, <<>>>>).error = None]_vars

\* After a clear, a submission was saved whose bytes the directory already
\* held under another name: they had been stored before the clear.
C9_Witness ==
    \E slot \in Slots :
        /\ Stored(tasks[slot]) /\ Saved(tasks[slot])
        /\ tasks[slot].epoch = clears /\ clears >= 1
        /\ \E f \in DOMAIN memeFiles :
               /\ f # FileName(tasks[slot].file_id)
               /\ memeFiles[f] = Download(tasks[slot].file_id)

\* The step of retag_all that runs the loop over the rows.
RetagStep(slot) ==
    /\ tasks[slot].kind = "retag_all"
    /\ tasks[slot].pc = "starting"
    /\ tasks'[slot].pc = "reply"

\* C10: replacing the tags of a row is a wholesale overwrite: when retag_all
\* has run, every row whose file is present holds exactly the tags freshly
\* extracted from the file and none of its prior tags.
C10_RetagOverwrites ==
    [][\A slot \in Slots :
          RetagStep(slot) =>
              \A i \in 1..Len(memes') :
                  memes'[i].file_path \in DOMAIN memeFiles =>
                      memes'[i].tags =
                          TagString(Range(GetTagsForImage(
                              memeFiles[memes'[i].file_path], OcrLoaded)))]_vars

-----------------------------------------------------------------------------
(* Properties of ingestion when its calls may fail, checked under          *)
(* SpecFaults.                                                             *)

\* The tags a row holds: the parts of its comma-joined tags column.
StoredTags(row) == {w \in Range(StrSplitComma(row.tags)) : w # <<>>}

\* The step of save_photo from the end of the download to its reply or to the
\* exception that ends it.
StoreOrFailStep(slot) ==
    /\ tasks[slot].kind = "save_photo"
    /\ tasks[slot].pc = "download"
    /\ tasks'[slot].pc \in {"reply", "done"}

\* That step committed a row.
Inserted(slot) == StoreOrFailStep(slot) /\ Len(memes') = Len(memes) + 1
NewRow == memes'[Len(memes')]

\* The photos of FaultUpdates by the first character of the file id: the
\* words read in the image and the words of the caption, written out by hand.
WordsInImage(file_id) ==
    IF Head(file_id) = "f" THEN {<<"m", "a", "t">>}
    ELSE IF Head(file_id) = "s"
    THEN {<<"c", "a", "t">>, <<"s", "a", "t">>, <<"m", "a", "t">>}
    ELSE {<<"t", "h", "e">>, <<"x", "_", "1">>, <<"c", "a", "t">>}

WordsInCaption(caption) ==
    IF caption = <<"C", "a", "t", "!", " ", "o", "n">> THEN {<<"c", "a", "t">>}
    ELSE IF caption = <<>> THEN {}
    ELSE {<<"t", "h", "e">>, <<"x", "1", "y">>}

Durable == <<memes, memeFiles, thumbFiles>>

\* The step of save_photo from its reply to its return.
SaveFinallyStep(slot) ==
    /\ tasks[slot].kind = "save_photo"
    /\ tasks[slot].pc = "reply"
    /\ tasks'[slot].pc = "done"

\* C13: a duplicate submission changes nothing durable: when the bytes of a
\* submission are already stored, the step that runs the insert leaves the
\* rows, the originals and the thumbnails as they were, and when the insert is
\* rejected the sender is told "This meme is already saved."; the handler then
\* returns with its temporary file removed and without another insert.
C13_DuplicateChangesNothing ==
    [][\A slot \in Slots :
          /\ (StoreOrFailStep(slot) /\ RowsWith(memes, TaskHash(tasks[slot])) # {})
                 => /\ Durable' = Durable
                    /\ tasks'[slot].pc = "reply" => Duplicate(tasks'[slot])
          /\ (StoreOrFailStep(slot) /\ Duplicate(tasks'[slot]))
                 => /\ RowsWith(memes, TaskHash(tasks[slot])) # {}
                    /\ Durable' = Durable
          /\ (SaveFinallyStep(slot) /\ Duplicate(tasks[slot]))
                 => /\ Durable' = Durable
                    /\ tasks'[slot].temp = None
                    /\ ~tasks'[slot].conn
                    /\ Duplicate(tasks'[slot])]_vars

\* The handler of a photo has returned after the reply "This meme is already
\* saved.": its bytes are stored under another file name, no file of its own
\* name exists and its temporary file is gone.
C13_Witness ==
    \E slot \in Slots :
        /\ tasks[slot].kind = "save_photo" /\ tasks[slot].pc = "done"
        /\ Duplicate(tasks[slot])
        /\ tasks[slot].temp = None
        /\ FileName(tasks[slot].file_id) \notin DOMAIN memeFiles
        /\ \E i \in RowsWith(memes, TaskHash(tasks[slot])) :
               /\ memes[i].file_path # FileName(tasks[slot].file_id)
               /\ memes[i].file_path \in DOMAIN memeFiles

\* The rows whose original file is not in MEME_DIR.
Orphans(rows, files) == {i \in 1..Len(rows) : rows[i].file_path \notin DOMAIN files}

\* C14: the original is committed only after the insert of its row has
\* succeeded, and whenever no handler stands between its insert and its move
\* (each store step runs both), every row has its original file in MEME_DIR:
\* a move that fails with an error leaves no row without file.
C14_RecordHasFile ==
    /\ [](Orphans(memes, memeFiles) = {})
    /\ [][\A slot \in Slots :
             (StoreOrFailStep(slot) /\ memeFiles' # memeFiles)
                 => /\ Len(memes') = Len(memes) + 1
                    /\ NewRow.file_path = FileName(tasks[slot].file_id)]_vars

\* C15: a row left without its original by a failure between the insert and
\* the move is recovered by a rescan or by a resubmission of the same bytes:
\* when the loop of a rescan has ended, every row has its original file in
\* MEME_DIR, and when a submission has been answered, the row of its bytes has
\* its original file.
C15_OrphanRecovered ==
    [][\A slot \in Slots :
          /\ RescanScanStep(slot) => Orphans(memes', memeFiles') = {}
          /\ (StoreOrFailStep(slot) /\ tasks'[slot].pc = "reply")
                 => RowsWith(memes', TaskHash(tasks[slot]))
                        \cap Orphans(memes', memeFiles') = {}]_vars

\* save_photo has returned, by a return or by an exception.
Returned(t) == t.kind = "save_photo" /\ t.pc = "done"

\* C16: on every exit path of save_photo that created a temporary file (the
\* download fails, the OCR fails, the insert is a duplicate or fails otherwise,
\* the move fails, the thumbnail fails, or all succeed), when the handler
\* returns the temporary file is no longer at its temporary location and the
\* connection the handler opened is closed.
C16_TempRemovedConnClosed ==
    /\ [](\A slot \in Slots :
             Returned(tasks[slot]) => tasks[slot].temp = None /\ ~tasks[slot].conn)
    /\ [][\A slot \in Slots :
             (/\ tasks[slot].kind = "save_photo"
              /\ tasks[slot].temp # None \/ tasks[slot].conn
              /\ tasks'[slot].pc = "done")
                 => tasks'[slot].temp = None /\ ~tasks'[slot].conn]_vars

\* A handler whose move failed after its insert has returned by the OSError:
\* its row is stored without file, and its temporary file and connection are
\* gone.
C16_Witness ==
    \E slot \in Slots :
        /\ Returned(tasks[slot])
        /\ tasks[slot].exc = "OSError"
        /\ tasks[slot].temp = None /\ ~tasks[slot].conn
        /\ RowsWith(memes, TaskHash(tasks[slot])) \cap Orphans(memes, memeFiles) # {}

\* C17: failures of the best-effort work never abort ingestion.  When the OCR
\* is unavailable or raises, the handler goes on to the insert: no exception
\* other than those of the insert and of the move ends it, and the row of bytes
\* not yet stored is inserted with exactly the words of the caption as tags
\* (none without caption).  When the original has been moved, with or without
\* thumbnail, the row and the original are kept and the sender is told the
\* meme was saved.
C17_BestEffortNeverAborts ==
    [][\A slot \in Slots :
          /\ (StoreOrFailStep(slot) /\ tasks'[slot].ocr \in {"unavailable", "raised"})
                 => /\ tasks'[slot].exc \in {None, "OperationalError", "OSError"}
                    /\ (/\ RowsWith(memes, TaskHash(tasks[slot])) = {}
                        /\ tasks'[slot].exc # "OperationalError")
                          => /\ Inserted(slot)
                             /\ StoredTags(NewRow) = WordsInCaption(tasks[slot].caption)
                    /\ (/\ RowsWith(memes, TaskHash(tasks[slot])) = {}
                        /\ tasks'[slot].exc = None)
                          => Saved(tasks'[slot])
          /\ (StoreOrFailStep(slot) /\ memeFiles' # memeFiles)
                 => /\ Inserted(slot)
                    /\ NewRow.file_path = FileName(tasks[slot].file_id)
                    /\ FileName(tasks[slot].file_id) \in DOMAIN memeFiles'
                    /\ tasks'[slot].exc = None
                    /\ Saved(tasks'[slot])
          /\ SaveFinallyStep(slot)
                 => Durable' = Durable /\ tasks'[slot].reply = tasks[slot].reply]_vars

\* A photo with the caption "the x_1y" was stored although its OCR and its
\* thumbnail both failed: its row holds the words of the caption only, its
\* original is in MEME_DIR without thumbnail, and the sender was told it was
\* saved.
C17_Witness ==
    \E slot \in Slots :
        /\ Returned(tasks[slot]) /\ Saved(tasks[slot])
        /\ tasks[slot].ocr \in {"unavailable", "raised"}
        /\ tasks[slot].caption # <<>>
        /\ FileName(tasks[slot].file_id) \in DOMAIN memeFiles
        /\ FileName(tasks[slot].file_id) \notin thumbFiles
        /\ \E i \in 1..Len(memes) :
               /\ memes[i].file_path = FileName(tasks[slot].file_id)
               /\ StoredTags(memes[i]) = {<<"t", "h", "e">>, <<"x", "1", "y">>}

\* The reply of save_photo when the store is unavailable.
Failure(t) == t.reply = "Error connecting to the database."

\* The table is missing or lacks a column of the INSERT statement.
TableUnusable(s) == ~({"content_hash", "file_path", "tags"} \subseteq s.columns)

\* C18: every photo submission ends with one reply out of saved, already
\* saved and a generic failure; when the insert fails for a reason other than
\* a duplicate (here: the table was not created), the sender receives the
\* failure reply and no row or original is left behind.
C18_OneOutcome ==
    /\ [](\A slot \in Slots :
             Returned(tasks[slot])
                 => Saved(tasks[slot]) \/ Duplicate(tasks[slot]) \/ Failure(tasks[slot]))
    /\ [][\A slot \in Slots :
             (StoreOrFailStep(slot) /\ TableUnusable(schema))
                 => /\ Failure(tasks'[slot])
                    /\ Durable' = Durable]_vars

\* A lowercase token of alphanumeric characters, three or more of them.
WellFormedTag(w) ==
    /\ Len(w) >= 3
    /\ \A k \in 1..Len(w) : IsAlnum(w[k]) /\ w[k] \notin Range(UpperChars)

\* C19: in every reachable state, every tag stored on a row written by
\* save_photo or by rescan, from a caption or from the text of an image, is a
\* lowercase token of alphanumeric characters only, of length at least 3.
C19_TagsWellFormed ==
    \A i \in 1..Len(memes) :
        memes[i].tags # <<>> =>
            \A w \in Range(StrSplitComma(memes[i].tags)) : WellFormedTag(w)

\* C20: retag_all never fails because of a missing original: when it runs over
\* a table of which some row has no file in MEME_DIR, every such row is skipped
\* with its tags unchanged, every row whose file is present gets the tags
\* freshly extracted from the file, and the run ends with the completion
\* report.
C20_RetagSkipsMissing ==
    [][\A slot \in Slots :
          (RetagStep(slot) /\ Orphans(memes, memeFiles) # {})
              => /\ Len(memes') = Len(memes)
                 /\ \A i \in Orphans(memes, memeFiles) : memes'[i] = memes[i]
                 /\ \A i \in (1..Len(memes)) \ Orphans(memes, memeFiles) :
                        memes'[i].tags =
                            TagString(Range(GetTagsForImage(
                                memeFiles[memes[i].file_path], OcrLoaded)))
                 /\ tasks'[slot].reply = "Re-tagging complete."]_vars

-----------------------------------------------------------------------------
(* Properties of the decorator, checked under SpecAuth.                    *)

\* The sender ids written in ALLOWED_TELEGRAM_IDS.
Listed == {1, 20}

\* The task of the slot belongs to a sender who is not on the list.
Unlisted(t) == t.user # 0 /\ t.user \notin Listed

\* What a refused sender sees: the refusal as reply or alert, or, for an
\* inline query, the answer with no result; no row was counted for them.
Refused(t, answer) ==
    /\ t.pc = "done"
    /\ t.count = 0
    /\ IF t.kind = "inline_query"
       THEN t.reply = None /\ answer.answered /\ answer.inline_results = <<>>
       ELSE t.reply = NotAuthorized

\* C11: with an allow-list configured, every update routed to a handler from
\* a sender who is not on the list (photo, inline query, /start, /dump,
\* /clear, a button of the confirmation, /regenerate_thumbnails, /rescan,
\* /retag) is answered with the refusal and processed no further: the rows,
\* the originals, the thumbnails, the schema and the state of the
\* conversation are unchanged, no token is issued and no handler ever runs
\* for that sender.
C11_UnlistedDenied ==
    /\ [](\A slot \in Slots : Unlisted(tasks[slot]) => tasks[slot].pc = "done")
    /\ [][\A slot \in Slots :
             (Unlisted(tasks'[slot]) /\ tasks'[slot] # tasks[slot])
                 => /\ Refused(tasks'[slot], search')
                    /\ Durable' = Durable
                    /\ UNCHANGED <<schema, conv, clears, minted>>
                    /\ tasks'[slot].kind # "inline_query" => search' = search]_vars

\* A cleared table whose originals are still in MEME_DIR, so that a rescan
\* would insert rows, while a confirmation of another clear is pending: the
\* last update was a /rescan of the sender 2 and was refused.
C11_Witness ==
    \E slot \in Slots :
        /\ tasks[slot].user = 2
        /\ tasks[slot].kind = "rescan"
        /\ tasks[slot].pc = "done"
        /\ tasks[slot].reply = NotAuthorized
        /\ clears >= 1 /\ memes = <<>> /\ DOMAIN memeFiles # {}
        /\ conv = CONFIRM_CLEAR

-----------------------------------------------------------------------------
(* Properties of the rescan of a library, checked under SpecLibrary.       *)

\* C21: when a rescan has run its loop, every file of MEME_DIR whose content
\* hash was not in the table when the rescan read the hashes has its hash in
\* the table and a thumbnail of its name in THUMBNAIL_DIR, each of several
\* files of the same bytes included.
C21_RescanCoversNewFiles ==
    [][\A slot \in Slots :
          RescanScanStep(slot) =>
              \A f \in DOMAIN memeFiles :
                  CalculateHash(memeFiles[f]) \notin tasks[slot].existing_hashes
                      => /\ CalculateHash(memeFiles[f]) \in GetAllHashes(memes')
                         /\ f \in thumbFiles']_vars

-----------------------------------------------------------------------------
(* Originals seen by other handlers, checked under Spec.                   *)

\* The file names of the rows.
Paths(rows) == {rows[i].file_path : i \in 1..Len(rows)}

\* C22: no reader sees a partially written original.  In every state, which
\* is a point where the handlers are at an await and another one can run,
\* each file of MEME_DIR holds the whole bytes of a photo; and the step of a
\* save_photo in which the row of its file appears ends with the whole file
\* in MEME_DIR, so that no other handler runs between the insert and the
\* move.
C22_NoPartialOriginal ==
    /\ [](\A f \in DOMAIN memeFiles : memeFiles[f] \in Contents)
    /\ [][\A slot \in Slots :
             (/\ tasks[slot].kind = "save_photo"
              /\ tasks'[slot] # tasks[slot]
              /\ FileName(tasks[slot].file_id) \in Paths(memes') \ Paths(memes))
                 => /\ FileName(tasks[slot].file_id) \in DOMAIN memeFiles'
                    /\ memeFiles'[FileName(tasks[slot].file_id)] =
                           Download(tasks[slot].file_id)]_vars

\* A save_photo has inserted its row and moved its file and stands at its
\* reply, while a rescan that read the hashes before that insert stands
\* before its loop over the directory.
C22_Witness ==
    \E a, b \in Slots :
        /\ tasks[a].kind = "save_photo" /\ tasks[a].pc = "reply" /\ Saved(tasks[a])
        /\ FileName(tasks[a].file_id) \in DOMAIN memeFiles
        /\ FileName(tasks[a].file_id) \in Paths(memes)
        /\ tasks[b].kind = "rescan" /\ tasks[b].pc = "scanning"
        /\ TaskHash(tasks[a]) \notin tasks[b].existing_hashes

-----------------------------------------------------------------------------
(* Row ids, checked under Spec.                                            *)

\* The ids of the rows.
RowIds(rows) == {rows[i].id : i \in 1..Len(rows)}

\* C23: ids increase and never change.  The rows, which are kept in the order
\* of their inserts, have strictly increasing ids; a step changes the id of no
\* row it keeps; a row that a step adds has an id greater than that of every
\* row present before; and the id an insert is given after a clear is greater
\* than the ids of the rows the clear removed.
C23_IdsIncrease ==
    /\ [](\A i, j \in 1..Len(memes) : i < j => memes[i].id < memes[j].id)
    /\ [][/\ \A i \in 1..Len(memes) :
                i <= Len(memes') => memes'[i].id = memes[i].id
          /\ \A i \in 1..Len(memes') :
                i > Len(memes) => \A k \in RowIds(memes) : memes'[i].id > k
          /\ \A slot \in Slots :
                ClearStep(slot) =>
                    \A k \in RowIds(memes) :
                        InsertMeme(schema', memes', <<"h1", <<"x">>, <<>>>>).lastrowid > k]_vars

-----------------------------------------------------------------------------
(* The clear protocol, checked under SpecAuth.                             *)

\* The step removes or changes a row.
RowsLost == \E i \in 1..Len(memes) : i > Len(memes') \/ memes'[i] # memes[i]

\* The task of the slot runs in this step.
Runs(slot) == tasks'[slot] # tasks[slot]

\* C24: the table is emptied only through the two steps of the clear
\* protocol.  A step loses rows only when it is the clear_database of a
\* clear_confirmation called for a listed sender with the choice
\* CONFIRM_CLEAR while the conversation is in state CONFIRM_CLEAR; the
\* conversation enters that state only at the return of a /clear of a listed
\* sender; a button press is handed to clear_confirmation in that state only;
\* /clear alone and the choice CANCEL_CLEAR leave the rows as they are; and
\* clear_confirmation returns with the conversation ended, whichever the
\* choice.
C24_ClearOnlyByProtocol ==
    [][/\ RowsLost =>
             \E slot \in Slots :
                 /\ ClearStep(slot)
                 /\ tasks[slot].user \in Listed
                 /\ conv = CONFIRM_CLEAR
                 /\ memes' = <<>>
       /\ (conv' = CONFIRM_CLEAR /\ conv # CONFIRM_CLEAR) =>
             \E slot \in Slots :
                 /\ tasks[slot].kind = "clear" /\ tasks[slot].user \in Listed
                 /\ tasks'[slot].pc = "done"
       /\ \A slot \in Slots :
             /\ (Runs(slot) /\ tasks'[slot].kind = "clear") => memes' = memes
             /\ (Runs(slot) /\ tasks'[slot].kind = "clear_confirmation"
                     /\ tasks'[slot].data = CANCEL_CLEAR) => memes' = memes
             /\ (Runs(slot) /\ tasks'[slot].kind = "clear_confirmation"
                     /\ tasks'[slot].pc = "answering") => conv = CONFIRM_CLEAR
             /\ (Runs(slot) /\ tasks[slot].kind = "clear_confirmation"
                     /\ tasks[slot].pc = "editing") => conv' = END]_vars

\* The listed sender sent /clear and pressed "Yes, clear it" on a table that
\* held rows: the table is empty, the originals are still in MEME_DIR, and
\* the conversation has ended.
C24_Witness ==
    \E slot \in Slots :
        /\ tasks[slot].kind = "clear_confirmation" /\ tasks[slot].pc = "done"
        /\ tasks[slot].user \in Listed
        /\ tasks[slot].data = CONFIRM_CLEAR
        /\ tasks[slot].reply = "Database cleared."
        /\ conv = END
        /\ memes = <<>> /\ DOMAIN memeFiles # {}

-----------------------------------------------------------------------------
(* Properties of the signed-URL gate, checked under SpecGate.              *)

Requested == http.response.status # 0

\* signer.loads accepted the token of the last request.
Accepted == Requested /\ http.response.exc = None

\* C3: a token made by signer.dumps at time t0 and presented at time t passes
\* signer.loads iff it is unmodified and t - t0 <= 3600; a token that differs
\* from the minted one in its payload, its timestamp or its signature is
\* rejected as invalid (403), and an unmodified token older than 3600 seconds
\* is rejected as expired (403).
C3_TokenAcceptedIffFreshAndIntact ==
    Requested =>
        /\ Accepted =>
              /\ http.token \in minted
              /\ http.at - http.token[2].t <= MaxTokenAge
        /\ (http.token \in minted /\ http.at - http.token[2].t <= MaxTokenAge)
              => Accepted
        /\ (http.token \in minted /\ http.at - http.token[2].t > MaxTokenAge)
              => /\ http.response.exc = "SignatureExpired"
                 /\ http.response.status = 403
        /\ (http.token \notin minted /\ Len(http.token) = 3)
              => /\ http.response.exc = "BadTimeSignature"
                 /\ http.response.status = 403

\* An unmodified token presented exactly 3600 seconds after it was minted is
\* accepted and its file served.
C3_Witness ==
    /\ http.token \in minted
    /\ http.at - http.token[2].t = MaxTokenAge
    /\ http.response.status = 200

\* The components of a normalised path.
Components(path) == Collapse(SplitAt(path, {"/"}, <<>>, <<>>), <<>>)

\* The path a payload resolves to lies outside the asset root.
LeavesRoot(base_dir, filename) ==
    LET full == Components(PathJoin(base_dir, filename))
        root == Components(base_dir)
    IN ~(Len(root) <= Len(full) /\ SubSeq(full, 1, Len(root)) = root)

\* C4: a validly signed payload whose resolution relative to the asset root
\* leaves that root, a sibling directory whose name begins with the root's
\* name included, is answered 403 "Path traversal attempt detected" and no
\* path is returned.
C4_TraversalRejected ==
    (Accepted /\ LeavesRoot(http.base_dir, http.token[1].name))
        => /\ http.response.status = 403
           /\ http.response.detail = "Path traversal attempt detected"

\* C5: every token presented to /memes/{token} or /thumbnails/{token}, text
\* with no signature separator included, is answered with the file, with 403
\* or with 404, the checks applied in the order signature and age, traversal,
\* existence; no token produces another outcome.
C5_OnlyFileOr403Or404 ==
    Requested =>
        /\ http.response.status \in {200, 403, 404}
        /\ ~Accepted => http.response.detail = "Invalid or expired token"
        /\ http.response.detail = "Path traversal attempt detected" => Accepted
        /\ http.response.status \in {200, 404}
               => /\ Accepted
                  /\ InsideBase(AbsPath(PathJoin(http.base_dir, http.token[1].name)),
                                http.base_dir)

-----------------------------------------------------------------------------
(* Properties of the search, checked under SpecSearch.                     *)

\* The tag set a row was stored with.
StoredTagSet(row) == CHOOSE S \in Range(TagPool) : TagString(S) = row.tags

\* The tokens the answered query asks for.
QueryTokens == (CHOOSE q \in Queries : q.text = search.query).tokens

\* The ids of the rows whose stored tag set holds every token of Q.
Supersets(Q) ==
    {memes[i].id : i \in {k \in 1..Len(memes) : Q \subseteq StoredTagSet(memes[k])}}

Ids(seq) == {seq[i][1] : i \in 1..Len(seq)}

Descending(ids) == \A i, j \in 1..Len(ids) : i < j => ids[i] > ids[j]

\* ids is every id of S when S has at most PageSize of them, and otherwise the
\* PageSize highest ids of S.
TopOf(ids, S) ==
    /\ ids \subseteq S
    /\ IF Cardinality(S) <= PageSize THEN ids = S
       ELSE /\ Cardinality(ids) = PageSize
            /\ \A a \in ids, b \in S \ ids : a > b

\* The selected rows are rows of the table, highest id first, and the top of S.
Selects(S) ==
    /\ Range(search.results) \subseteq Range(GetAllMemes(memes))
    /\ Descending([i \in 1..Len(search.results) |-> search.results[i][1]])
    /\ TopOf(Ids(search.results), S)

DeliveredIds == [i \in 1..Len(search.inline_results) |-> search.inline_results[i].id]

\* C6 as stated: a search with an empty query delivers every stored record
\* when at most 50 exist, and otherwise exactly the 50 with the highest ids,
\* in strictly descending id order.
C6_EmptyQueryDeliversAll ==
    (search.answered /\ QueryTokens = {}) =>
        /\ Descending(DeliveredIds)
        /\ TopOf(Range(DeliveredIds), Supersets({}))

\* C6, amended: a search with an empty query selects every stored record when
\* at most 50 exist, and otherwise the 50 with the highest ids, in strictly
\* descending id order; it delivers, in that order, those of the selected
\* records whose original file can be opened, each with a token for its file.
C6_EmptyQueryDeliversOpenable ==
    (search.answered /\ QueryTokens = {}) =>
        /\ Selects(Supersets({}))
        /\ LET openable == SelectSeq(search.results,
                                     LAMBDA r : r[2] \in DOMAIN memeFiles)
           IN /\ DeliveredIds = [i \in 1..Len(openable) |-> openable[i][1]]
              /\ \A i \in 1..Len(openable) :
                    search.inline_results[i].photo_token = Dumps(openable[i][2], now)

C6_Witness ==
    /\ search.answered
    /\ search.query = <<>>
    /\ Len(memes) > PageSize
    /\ Len(search.results) = PageSize
    /\ Len(search.inline_results) \in 1..(PageSize - 1)

\* C7: for a non-empty set Q of query tokens, the records the search selects
\* are exactly the (up to 50 highest-id) records whose stored tag set is a
\* superset of Q, in descending id order: a record lacking a token of Q, or
\* holding it only as part of a longer tag, is not selected.
C7_SelectedAreSupersets ==
    (search.answered /\ QueryTokens # {}) => Selects(Supersets(QueryTokens))

C7_Witness ==
    /\ search.answered
    /\ Cardinality(QueryTokens) = 2
    /\ Cardinality(Supersets(QueryTokens)) > PageSize
    /\ Len(search.results) = PageSize
    /\ \E i \in 1..Len(memes) :
          /\ memes[i].id > search.results[PageSize][1]
          /\ <<"c", "a", "t", "d", "o", "g">> \in StoredTagSet(memes[i])
          /\ memes[i].id \notin Ids(search.results)

====
